---- MODULE Spec2Model ----
(***************************************************************************)
(* Model of the protein-properties-predictor feature/classification        *)
(* pipeline: sequence validation, the structural rule classifier inside     *)
(* extract_features, the composition encoding, the synthetic data           *)
(* generator, the ProteinStructureClassifier life cycle with its two        *)
(* persisted files, and analyze_sequence with the remote BLASTp search.     *)
(*                                                                         *)
(* Conventions.  A Python str is a tuple of one-character strings.  A       *)
(* fraction is a record [num, den] compared exactly (cross-multiplied), so  *)
(* thresholds 0.3 and 0.5 are 3/10 and 5/10.  An operation's outcome is a   *)
(* record [kind, msg, value] where kind is "ok" or the name of the Python   *)
(* exception that leaves the function.                                      *)
(***************************************************************************)
EXTENDS Integers, Sequences, FiniteSets, TLC

\* ------------------------------------------------------------------ bounds
MaxDen == 10          \* largest denominator of the (H, S) grid of the rule check
MaxRawLen == 3        \* longest raw text handed to the validator
MaxSamples == 2       \* largest samples_per_class given to the generator
MaxFits == 2          \* train calls followed in one behaviour
MaxAnalyses == 2      \* analyze_sequence calls followed in one behaviour

\* --------------------------------------------------------------- constants
\* sequence_validator.py:11 and ml_model.py:15
AMINO_ACIDS ==
  << "A", "C", "D", "E", "F", "G", "H", "I", "K", "L",
     "M", "N", "P", "Q", "R", "S", "T", "V", "W", "Y" >>

STANDARD_AMINO_ACIDS == { AMINO_ACIDS[i] : i \in 1..Len(AMINO_ACIDS) }

\* ml_model.py:18, with the Greek letters spelled out
STRUCTURE_CLASSES ==
  << "Dominantly alpha-helical", "Dominantly beta-sheet", "alpha/beta",
     "alpha+beta", "Unstructured / Coil-Dominant" >>

ClassSet == { STRUCTURE_CLASSES[i] : i \in 1..Len(STRUCTURE_CLASSES) }

\* ------------------------------------------------------- outcome records
None == "None"

Ok(v) == [kind |-> "ok", msg |-> "", value |-> v]

Raise(k, m, v) == [kind |-> k, msg |-> m, value |-> v]

\* Body applied to the value of x, x being evaluated once
Bind(Body(_), x) == CHOOSE r \in { Body(v) : v \in { x } } : TRUE

\* ------------------------------------------------------------ str helpers
LowerCase ==
  << "a", "b", "c", "d", "e", "f", "g", "h", "i", "j", "k", "l", "m",
     "n", "o", "p", "q", "r", "s", "t", "u", "v", "w", "x", "y", "z" >>

UpperCase ==
  << "A", "B", "C", "D", "E", "F", "G", "H", "I", "J", "K", "L", "M",
     "N", "O", "P", "Q", "R", "S", "T", "U", "V", "W", "X", "Y", "Z" >>

WhiteSpace == { " ", "\t" }

\* str.upper on one character
upper_char(c) ==
  IF \E i \in 1..Len(LowerCase) : LowerCase[i] = c
    THEN UpperCase[CHOOSE i \in 1..Len(LowerCase) : LowerCase[i] = c]
    ELSE c

\* str.upper
upper(s) == [i \in 1..Len(s) |-> upper_char(s[i])]

RECURSIVE lstrip(_)
lstrip(s) ==
  IF s # << >> /\ Head(s) \in WhiteSpace THEN lstrip(Tail(s)) ELSE s

RECURSIVE rstrip(_)
rstrip(s) ==
  IF s # << >> /\ s[Len(s)] \in WhiteSpace
    THEN rstrip(SubSeq(s, 1, Len(s) - 1))
    ELSE s

\* str.strip: leading and trailing white space only
strip(s) == rstrip(lstrip(s))

\* set(s)
CharSet(s) == { s[i] : i \in 1..Len(s) }

\* s.count(c)
count(s, c) == Cardinality({ i \in 1..Len(s) : s[i] = c })

\* number of positions of s holding a member of the set letters
CountIn(s, letters) == Cardinality({ i \in 1..Len(s) : s[i] \in letters })

\* ------------------------------------------------------ sequence_validator
\* The cleaned text next returned; a variant that drops the offending
\* characters instead of keeping the text whole.
cleaned_seq_dropping(seq) ==
  SelectSeq(Bind(upper, strip(seq)), LAMBDA c : c \in STANDARD_AMINO_ACIDS)

cleaned_seq(seq) == Bind(upper, strip(seq))

validate_amino_acid_sequence(seq) ==
  Bind(LAMBDA cleaned :
         LET invalid_chars == CharSet(cleaned) \ STANDARD_AMINO_ACIDS
         IN  IF invalid_chars # {}
               THEN Raise("ValueError", "Invalid characters found in sequence",
                          invalid_chars)
               ELSE Ok(cleaned),
       cleaned_seq(seq))

\* -------------------------------------------------------------- fractions
Frac(n, d) == [num |-> n, den |-> d]

\* f >= a/b, f <= a/b, f > a/b, f < a/b for a fraction f with den > 0
FGe(f, a, b) == f.num * b >= a * f.den
FLe(f, a, b) == f.num * b <= a * f.den
FGt(f, a, b) == f.num * b > a * f.den
FLt(f, a, b) == f.num * b < a * f.den

\* ------------------------------------------------------- feature_extractor
\* ProteinAnalysis.secondary_structure_fraction as the library documents it:
\* the residue sets of helix, turn and sheet, returned in the order
\* (helix, turn, sheet).
HelixLetters == { "V", "I", "Y", "F", "W", "L" }
TurnLetters == { "N", "P", "G", "S" }
SheetLetters == { "E", "M", "A", "L" }

secondary_structure_fraction(s) ==
  << Frac(CountIn(s, HelixLetters), Len(s)),
     Frac(CountIn(s, TurnLetters), Len(s)),
     Frac(CountIn(s, SheetLetters), Len(s)) >>

\* The third branch with strict upper limits: a variant that sends the
\* boundary points to an adjacent branch.
structure_class_strict(helix_fraction, sheet_fraction) ==
  IF FGe(helix_fraction, 5, 10) /\ FLt(sheet_fraction, 3, 10)
    THEN "Dominantly alpha-helical"
  ELSE IF FGe(sheet_fraction, 5, 10) /\ FLt(helix_fraction, 3, 10)
    THEN "Dominantly beta-sheet"
  ELSE IF /\ FGt(helix_fraction, 3, 10) /\ FLt(helix_fraction, 5, 10)
          /\ FGt(sheet_fraction, 3, 10) /\ FLt(sheet_fraction, 5, 10)
    THEN "alpha/beta"
  ELSE IF FGt(helix_fraction, 3, 10) /\ FGt(sheet_fraction, 3, 10)
    THEN "alpha+beta"
  ELSE "Unstructured / Coil-Dominant"

\* The if/elif chain of extract_features
structure_class(helix_fraction, sheet_fraction) ==
  IF FGe(helix_fraction, 5, 10) /\ FLt(sheet_fraction, 3, 10)
    THEN "Dominantly alpha-helical"
  ELSE IF FGe(sheet_fraction, 5, 10) /\ FLt(helix_fraction, 3, 10)
    THEN "Dominantly beta-sheet"
  ELSE IF /\ FGe(helix_fraction, 3, 10) /\ FLe(helix_fraction, 5, 10)
          /\ FGe(sheet_fraction, 3, 10) /\ FLe(sheet_fraction, 5, 10)
    THEN "alpha/beta"
  ELSE IF FGt(helix_fraction, 3, 10) /\ FGt(sheet_fraction, 3, 10)
    THEN "alpha+beta"
  ELSE "Unstructured / Coil-Dominant"

\* extract_features: validate, take the three fractions (which divide by the
\* length), unpack them in the order the code names them, classify.
profile(validated_seq, ssf) ==
  LET helix_fraction == ssf[1]
      sheet_fraction == ssf[2]
      coil_fraction == ssf[3]
  IN  Ok([helix_fraction |-> helix_fraction,
          sheet_fraction |-> sheet_fraction,
          coil_fraction |-> coil_fraction,
          sequence_length |-> Len(validated_seq),
          structure_class |-> structure_class(helix_fraction, sheet_fraction)])

extract_features(sequence) ==
  Bind(LAMBDA v :
         IF v.kind # "ok" THEN v
         ELSE IF Len(v.value) = 0
           THEN Raise("ZeroDivisionError", "division by zero", None)
         ELSE Bind(LAMBDA ssf : profile(v.value, ssf),
                   secondary_structure_fraction(v.value)),
       validate_amino_acid_sequence(sequence))

\* ---------------------------------------------------------------- ml_model
\* The composition vector of predict and of generate_training_data: one
\* count(aa) / len entry per letter of AMINO_ACIDS.
feature_vector(s) == [i \in 1..Len(AMINO_ACIDS) |-> Frac(count(s, AMINO_ACIDS[i]), Len(s))]

\* The first lines of predict: validate, then encode; len = 0 divides by zero.
encode(sequence) ==
  Bind(LAMBDA v :
         IF v.kind # "ok" THEN v
         ELSE IF Len(v.value) = 0
           THEN Raise("ZeroDivisionError", "division by zero", None)
         ELSE Ok(feature_vector(v.value)),
       validate_amino_acid_sequence(sequence))


\* =================================================================== state
VARIABLES
  ruleIn,            \* the (H, S) pair handed to the rule classifier
  ruleOut,           \* the label it returned, None before the call
  raw,               \* the raw text handed to a sequence function
  seqOp,             \* the sequence function called on raw, None before
  seqRes,            \* its outcome
  genPc,             \* generate_training_data: "idle", "loop", "returned", "raised"
  samples_per_class, \* its arguments
  sequence_length,
  save_csv,
  class_idx,         \* position of the for loop in STRUCTURE_CLASSES
  gen_count,         \* the while loop's count
  sequence,          \* the sequence drawn last, empty before the first draw
  X_train,           \* the feature vectors appended so far
  y_train,           \* the labels appended so far
  genLog,            \* history: the accepted sequences, in the order drawn
  csv_written,       \* whether training_data.csv was written
  net_file,          \* protein_structure_model.keras
  scaler_file,       \* scaler.pkl
  clf,               \* the ProteinStructureClassifier objects, by slot
  fits,              \* history: the number of train calls so far
  lastOp,            \* history: the last classifier operation and its outcome
  cliPc,             \* analyze_sequence: "idle", "blast_submit", "blast_sleep",
                     \* "blast_check", "predict"
  cliSeq,            \* its argument
  validated_seq,     \* its locals
  features,
  blast_results,
  model_prediction,
  cliResult,         \* how the last call ended: "written", "error", None
  analyses           \* history: the number of analyze_sequence calls so far

ruleVars == << ruleIn, ruleOut >>
seqVars == << raw, seqOp, seqRes >>
genVars ==
  << genPc, samples_per_class, sequence_length, save_csv, class_idx,
     gen_count, sequence, X_train, y_train, genLog, csv_written >>
modelVars == << net_file, scaler_file, clf, fits, lastOp >>
cliVars ==
  << cliPc, cliSeq, validated_seq, features, blast_results, model_prediction,
     cliResult, analyses >>

vars == << ruleVars, seqVars, genVars, modelVars, cliVars >>

\* ------------------------------------------------------ rule classifier
RuleInputs ==
  { r \in [hn : 0..MaxDen, hd : 1..MaxDen, sn : 0..MaxDen, sd : 1..MaxDen] :
      r.hn <= r.hd /\ r.sn <= r.sd }

RuleIdle == ruleIn = [hn |-> 0, hd |-> 1, sn |-> 0, sd |-> 1] /\ ruleOut = None

\* The classification step of extract_features on the pair ruleIn
ClassifyRule ==
  /\ ruleOut = None
  /\ ruleOut' = structure_class(Frac(ruleIn.hn, ruleIn.hd), Frac(ruleIn.sn, ruleIn.sd))
  /\ UNCHANGED ruleIn
  /\ UNCHANGED << seqVars, genVars, modelVars, cliVars >>

\* ---------------------------------------------------- sequence functions
RawChars == { "M", "L", "N", "m", "x", " ", "\t", "-", "X" }

RECURSIVE TuplesUpTo(_, _)
TuplesUpTo(S, n) ==
  IF n = 0 THEN { << >> }
  ELSE LET shorter == TuplesUpTo(S, n - 1)
       IN  shorter \cup { Append(t, c) : t \in { u \in shorter : Len(u) = n - 1 }, c \in S }

\* every text over RawChars up to MaxRawLen, and the validator's own
\* "MKTPR-XXX" test case
RawInputs ==
  TuplesUpTo(RawChars, MaxRawLen)
    \cup { << "M", "K", "T", "P", "R", "-", "X", "X", "X" >> }

SeqIdle == raw = << >> /\ seqOp = None /\ seqRes = None

Validate ==
  /\ seqOp = None
  /\ seqOp' = "validate_amino_acid_sequence"
  /\ seqRes' = validate_amino_acid_sequence(raw)
  /\ UNCHANGED raw
  /\ UNCHANGED << ruleVars, genVars, modelVars, cliVars >>

ExtractFeatures ==
  /\ seqOp = None
  /\ seqOp' = "extract_features"
  /\ seqRes' = extract_features(raw)
  /\ UNCHANGED raw
  /\ UNCHANGED << ruleVars, genVars, modelVars, cliVars >>

Encode ==
  /\ seqOp = None
  /\ seqOp' = "encode"
  /\ seqRes' = encode(raw)
  /\ UNCHANGED raw
  /\ UNCHANGED << ruleVars, genVars, modelVars, cliVars >>


\* --------------------------------------------------- generate_training_data
\* generate_random_sequence draws any text of the given length over
\* AMINO_ACIDS; the draws followed here are these: at length 5 one or two of
\* each class, at length 1 (where two classes have no sequence), and the
\* empty text of length 0.
SamplePool ==
  { << >>,
    << "V" >>, << "N" >>, << "K" >>, << "L" >>,
    << "V", "V", "V", "K", "K" >>, << "L", "L", "L", "E", "E" >>,
    << "N", "N", "N", "K", "K" >>,
    << "V", "V", "N", "N", "K" >>, << "V", "N", "V", "N", "K" >>,
    << "V", "V", "V", "N", "N" >>,
    << "K", "K", "K", "K", "K" >> }

GenLengths == { Len(s) : s \in SamplePool }

generate_random_sequence(length) == { s \in SamplePool : Len(s) = length }

GenIdle ==
  /\ genPc = "idle"
  /\ samples_per_class = 0
  /\ sequence_length = 0
  /\ save_csv = FALSE
  /\ class_idx = 1
  /\ gen_count = 0
  /\ sequence = << >>
  /\ X_train = << >>
  /\ y_train = << >>
  /\ genLog = << >>
  /\ csv_written = FALSE

\* The state on entry to the for loop, for any arguments
GenEntered ==
  /\ genPc = "loop"
  /\ samples_per_class \in 0..MaxSamples
  /\ sequence_length \in GenLengths
  /\ save_csv \in BOOLEAN
  /\ class_idx = 1
  /\ gen_count = 0
  /\ sequence = << >>
  /\ X_train = << >>
  /\ y_train = << >>
  /\ genLog = << >>
  /\ csv_written = FALSE

\* The acceptance test of the while loop; a variant that keeps every draw.
accepts_any(assigned_class, wanted_class) == TRUE

accepts(assigned_class, wanted_class) == assigned_class = wanted_class

\* One iteration of the while loop: draw, classify, keep or discard.  An
\* exception of extract_features leaves generate_training_data.
GenDraw ==
  /\ genPc = "loop"
  /\ gen_count < samples_per_class
  /\ \E s \in generate_random_sequence(sequence_length) :
       LET extracted == extract_features(s)
       IN  /\ sequence' = s
           /\ IF extracted.kind # "ok"
                THEN /\ genPc' = "raised"
                     /\ UNCHANGED << gen_count, X_train, y_train, genLog >>
              ELSE IF accepts(extracted.value.structure_class, STRUCTURE_CLASSES[class_idx])
                THEN /\ X_train' = Append(X_train, feature_vector(s))
                     /\ y_train' = Append(y_train, extracted.value.structure_class)
                     /\ genLog' = Append(genLog, s)
                     /\ gen_count' = gen_count + 1
                     /\ UNCHANGED genPc
              ELSE UNCHANGED << genPc, gen_count, X_train, y_train, genLog >>
  /\ UNCHANGED << samples_per_class, sequence_length, save_csv, class_idx, csv_written >>
  /\ UNCHANGED << ruleVars, seqVars, modelVars, cliVars >>

\* The while loop ends and the for loop takes the next class
GenNextClass ==
  /\ genPc = "loop"
  /\ gen_count >= samples_per_class
  /\ class_idx < Len(STRUCTURE_CLASSES)
  /\ class_idx' = class_idx + 1
  /\ gen_count' = 0
  /\ UNCHANGED << genPc, samples_per_class, sequence_length, save_csv, sequence,
                  X_train, y_train, genLog, csv_written >>
  /\ UNCHANGED << ruleVars, seqVars, modelVars, cliVars >>

\* After the last class: the optional csv, then return X_train, y_train
GenReturn ==
  /\ genPc = "loop"
  /\ gen_count >= samples_per_class
  /\ class_idx = Len(STRUCTURE_CLASSES)
  /\ genPc' = "returned"
  /\ csv_written' = save_csv
  /\ UNCHANGED << samples_per_class, sequence_length, save_csv, class_idx, gen_count,
                  sequence, X_train, y_train, genLog >>
  /\ UNCHANGED << ruleVars, seqVars, modelVars, cliVars >>


\* ----------------------------------------------- ProteinStructureClassifier
Slots == { 1, 2 }

\* The network parameter values a random initialisation or a training can
\* end in, and the statistics of the training sets given to train
WeightValues == { 1, 2 }

DatasetStats == { 1, 2 }

NoNetFile == [exists |-> FALSE, weights |-> 0, fit |-> 0]

NoScalerFile == [exists |-> FALSE, stats |-> 0, fit |-> 0]

\* StandardScaler(): not fitted
UnfittedScaler == [fitted |-> FALSE, stats |-> 0]

\* StandardScaler.fit(X_train): the statistics of the training set, which
\* stand for its per-column mean and variance
FittedScaler(X_stats) == [fitted |-> TRUE, stats |-> X_stats]

\* LabelEncoder.fit(STRUCTURE_CLASSES): classes_ is the sorted label list
label_encoder_classes ==
  << "Dominantly alpha-helical", "Dominantly beta-sheet",
     "Unstructured / Coil-Dominant", "alpha+beta", "alpha/beta" >>

NoClassifier ==
  [made |-> FALSE, model |-> 0, scaler |-> UnfittedScaler,
   label_encoder |-> label_encoder_classes,
   fresh |-> FALSE, fit_called |-> FALSE, fit_id |-> 0, fit_ok |-> FALSE,
   loaded_net |-> 0, loaded_scaler |-> 0]

NoOp ==
  [op |-> None, slot |-> 0, input |-> << >>, net_present |-> FALSE,
   scaler_present |-> FALSE, fresh |-> FALSE, fit_called |-> FALSE,
   result |-> Ok(None)]

ModelIdle ==
  /\ net_file = NoNetFile
  /\ scaler_file = NoScalerFile
  /\ clf = [i \in Slots |-> NoClassifier]
  /\ fits = 0
  /\ lastOp = NoOp

\* __init__: load the pair when both files exist, else a new network with
\* random initial weights w0 and the unfitted scaler.
init_classifier(net, sc, w0) ==
  IF net.exists /\ sc.exists
    THEN [made |-> TRUE, model |-> net.weights,
          scaler |-> FittedScaler(sc.stats),
          label_encoder |-> label_encoder_classes,
          fresh |-> FALSE, fit_called |-> FALSE, fit_id |-> 0, fit_ok |-> FALSE,
          loaded_net |-> net.fit, loaded_scaler |-> sc.fit]
    ELSE [made |-> TRUE, model |-> w0,
          scaler |-> UnfittedScaler,
          label_encoder |-> label_encoder_classes,
          fresh |-> TRUE, fit_called |-> FALSE, fit_id |-> 0, fit_ok |-> FALSE,
          loaded_net |-> 0, loaded_scaler |-> 0]

Construct(i) ==
  /\ \E w0 \in WeightValues :
       clf' = [clf EXCEPT ![i] = init_classifier(net_file, scaler_file, w0)]
  /\ lastOp' = [NoOp EXCEPT !.op = "construct", !.slot = i,
                            !.net_present = net_file.exists,
                            !.scaler_present = scaler_file.exists,
                            !.fresh = ~(net_file.exists /\ scaler_file.exists),
                            !.result = Ok(IF net_file.exists /\ scaler_file.exists
                                            THEN "Loaded" ELSE "Fresh")]
  /\ UNCHANGED << net_file, scaler_file, fits >>
  /\ UNCHANGED << ruleVars, seqVars, genVars, cliVars >>

\* The points at which train can end: an exception of scaler.fit, of
\* model.fit, of model.save, of joblib.dump, or the normal return.
TrainOutcomes ==
  { "scaler_fit_raises", "model_fit_raises", "save_raises", "dump_raises", "ok" }

\* The object after train(X_train, ..) that ends with outcome o, the network
\* having reached weights w
trained_classifier(c, X_stats, w, o, f) ==
  [c EXCEPT !.fit_called = TRUE,
            !.fit_id = f,
            !.fit_ok = (o = "ok"),
            !.scaler = IF o = "scaler_fit_raises" THEN c.scaler ELSE FittedScaler(X_stats),
            !.model = IF o = "scaler_fit_raises" THEN c.model ELSE w]

\* What model.save writes: the network as it is after model.fit; a variant
\* that writes the network as it was before the fit.
saved_model_stale(before, after) == before.model

saved_model(before, after) == after.model

Train(i) ==
  /\ clf[i].made
  /\ fits < MaxFits
  /\ \E X_stats \in DatasetStats, w \in WeightValues, o \in TrainOutcomes :
       LET f == fits + 1
           after == trained_classifier(clf[i], X_stats, w, o, f)
       IN  /\ clf' = [clf EXCEPT ![i] = after]
           /\ net_file' =
                IF o \in { "dump_raises", "ok" }
                  THEN [exists |-> TRUE, weights |-> saved_model(clf[i], after), fit |-> f]
                  ELSE net_file
           /\ scaler_file' =
                IF o = "ok"
                  THEN [exists |-> TRUE, stats |-> after.scaler.stats, fit |-> f]
                  ELSE scaler_file
           /\ lastOp' = [NoOp EXCEPT !.op = "train", !.slot = i,
                                     !.fresh = clf[i].fresh,
                                     !.fit_called = TRUE,
                                     !.result = IF o = "ok" THEN Ok(None)
                                                ELSE Raise("Exception", o, None)]
  /\ fits' = fits + 1
  /\ UNCHANGED << ruleVars, seqVars, genVars, cliVars >>

\* scaler.transform([feature_vector]): NotFittedError (a ValueError and an
\* AttributeError) on an unfitted scaler; a variant without that check.
scaler_transform_unchecked(scaler, fv) == Ok(<< scaler.stats, fv >>)

scaler_transform(scaler, fv) ==
  IF scaler.fitted THEN Ok(<< scaler.stats, fv >>)
  ELSE Raise("NotFittedError", "This StandardScaler instance is not fitted yet", None)

RECURSIVE WeightedSum(_, _)
WeightedSum(fv, n) ==
  IF n = 0 THEN 0 ELSE n * fv[n].num + WeightedSum(fv, n - 1)

\* model.predict(X_scaled).argmax(): the network's forward pass is a fixed
\* function of its weights and of the scaled input; this stands for it.
prediction_argmax(weights, X_scaled) ==
  (weights + X_scaled[1] + WeightedSum(X_scaled[2], Len(X_scaled[2])))
     % Len(STRUCTURE_CLASSES)

\* predict from the outcome e of its first lines (validation and encoding)
predict_encoded(c, e) ==
  IF e.kind # "ok" THEN e
  ELSE Bind(LAMBDA t :
              IF t.kind # "ok"
                THEN Raise("ValueError",
                           "Scaler has not been fitted yet. Train the model first.", None)
                ELSE Ok(c.label_encoder[prediction_argmax(c.model, t.value) + 1]),
            scaler_transform(c.scaler, e.value))

\* predict
predict(c, seq) == Bind(LAMBDA e : predict_encoded(c, e), encode(seq))

PredictInputs ==
  { << "V", "V", "V", "K", "K" >>, << " ", "l", "\t" >>, << >>, << "M", "-", "X" >> }

Predict(i) ==
  /\ clf[i].made
  /\ \E seq \in PredictInputs :
       lastOp' = [NoOp EXCEPT !.op = "predict", !.slot = i, !.input = seq,
                              !.fresh = clf[i].fresh,
                              !.fit_called = clf[i].fit_called,
                              !.result = predict(clf[i], seq)]
  /\ UNCHANGED << net_file, scaler_file, clf, fits >>
  /\ UNCHANGED << ruleVars, seqVars, genVars, cliVars >>


\* ------------------------------------------------------------------- cli
\* An outcome not yet produced
Unset == [kind |-> "unset", msg |-> "", value |-> None]

\* validated_seq before its assignment
UnsetSeq == [kind |-> "unset", msg |-> "", value |-> << >>]

\* features before its assignment, and after the handler set it to None
NoFeatures ==
  [kind |-> "None", msg |-> "",
   value |-> [helix_fraction |-> Frac(0, 1), sheet_fraction |-> Frac(0, 1),
              coil_fraction |-> Frac(0, 1), sequence_length |-> 0,
              structure_class |-> None]]

CliInputs == { << "V", "V", "V", "K", "K" >>, << " ", "l", "N" >>, << >>, << "M", "-", "X" >> }

\* The try block around extract_features: None when it raises
features_or_none(validated) ==
  Bind(LAMBDA f : IF f.kind = "ok" THEN f ELSE NoFeatures, extract_features(validated))

CliIdle ==
  /\ cliPc = "idle"
  /\ cliSeq = << >>
  /\ validated_seq = UnsetSeq
  /\ features = NoFeatures
  /\ blast_results = Unset
  /\ model_prediction = Unset
  /\ cliResult = None
  /\ analyses = 0

\* A variant of the test that trains only when both files are missing
needs_training_neither(net, sc) == ~net.exists /\ ~sc.exists

\* ensure_model_trained's test: train when either file is missing
needs_training(net, sc) == ~net.exists \/ ~sc.exists

\* analyze_sequence up to the BLASTp try block: ensure_model_trained (which
\* generates data, constructs a classifier in slot 1 and trains it when a
\* file is missing), validation, and extract_features under its own handler.
\* An exception of train or of the validation reaches the outer handler.
AnalyzeStart ==
  /\ cliPc = "idle"
  /\ analyses < MaxAnalyses
  /\ analyses' = analyses + 1
  /\ \E seq \in CliInputs, w0 \in WeightValues, X_stats \in DatasetStats,
        w \in WeightValues, o \in TrainOutcomes :
       LET training == needs_training(net_file, scaler_file)
           f == fits + 1
           made == init_classifier(net_file, scaler_file, w0)
           after == trained_classifier(made, X_stats, w, o, f)
           v == validate_amino_acid_sequence(seq)
           failed == (training /\ o # "ok") \/ v.kind # "ok"
       IN  /\ cliSeq' = seq
           /\ IF training
                THEN /\ clf' = [clf EXCEPT ![1] = after]
                     /\ fits' = f
                     /\ net_file' =
                          IF o \in { "dump_raises", "ok" }
                            THEN [exists |-> TRUE, weights |-> saved_model(made, after),
                                  fit |-> f]
                            ELSE net_file
                     /\ scaler_file' =
                          IF o = "ok"
                            THEN [exists |-> TRUE, stats |-> after.scaler.stats, fit |-> f]
                            ELSE scaler_file
                ELSE UNCHANGED << clf, fits, net_file, scaler_file >>
           /\ validated_seq' = IF failed THEN UnsetSeq ELSE v
           /\ features' = IF failed THEN NoFeatures ELSE features_or_none(v.value)
           /\ cliPc' = IF failed THEN "idle" ELSE "blast_submit"
           /\ cliResult' = IF failed THEN "error" ELSE None
  /\ blast_results' = Unset
  /\ model_prediction' = Unset
  /\ UNCHANGED << lastOp, ruleVars, seqVars, genVars >>

\* The text stored when blastp_search raises
BlastUnavailable == Ok("Unable to retrieve BLASTp results")

\* blastp_search step 1: the submission; a status other than 200, a reply
\* without RID or a connection error raises, which analyze_sequence catches
BlastSubmit ==
  /\ cliPc = "blast_submit"
  /\ \E reply \in { "rid", "error" } :
       IF reply = "rid"
         THEN cliPc' = "blast_sleep" /\ UNCHANGED blast_results
         ELSE cliPc' = "predict" /\ blast_results' = BlastUnavailable
  /\ UNCHANGED << cliSeq, validated_seq, features, model_prediction, cliResult, analyses,
                  modelVars, ruleVars, seqVars, genVars >>

\* blastp_search step 2: sleep(5) at the top of the while True loop
BlastSleep ==
  /\ cliPc = "blast_sleep"
  /\ cliPc' = "blast_check"
  /\ UNCHANGED << cliSeq, validated_seq, features, blast_results, model_prediction,
                  cliResult, analyses, modelVars, ruleVars, seqVars, genVars >>

\* The status request: READY leaves the loop (steps 3 and 4 then fetch and
\* parse the hits, or raise), WAITING loops, anything else raises
BlastCheck ==
  /\ cliPc = "blast_check"
  /\ \E status \in { "READY", "WAITING", "other" }, fetched \in BOOLEAN :
       IF status = "WAITING"
         THEN cliPc' = "blast_sleep" /\ UNCHANGED blast_results
         ELSE /\ cliPc' = "predict"
              /\ blast_results' =
                   IF status = "READY" /\ fetched THEN Ok("hits") ELSE BlastUnavailable
  /\ UNCHANGED << cliSeq, validated_seq, features, model_prediction, cliResult, analyses,
                  modelVars, ruleVars, seqVars, genVars >>

\* The rest of analyze_sequence: a classifier constructed in slot 2, predict,
\* the report appended to results.txt; an exception of predict reaches the
\* outer handler.
AnalyzeFinish ==
  /\ cliPc = "predict"
  /\ \E w0 \in WeightValues :
       LET made == init_classifier(net_file, scaler_file, w0)
           r == predict(made, validated_seq.value)
       IN  /\ clf' = [clf EXCEPT ![2] = made]
           /\ model_prediction' = r
           /\ cliResult' = IF r.kind = "ok" THEN "written" ELSE "error"
           /\ lastOp' = [NoOp EXCEPT !.op = "predict", !.slot = 2,
                                     !.input = validated_seq.value,
                                     !.fresh = made.fresh,
                                     !.fit_called = FALSE,
                                     !.result = r]
  /\ cliPc' = "idle"
  /\ UNCHANGED << cliSeq, validated_seq, features, blast_results, analyses,
                  net_file, scaler_file, fits, ruleVars, seqVars, genVars >>

\* ========================================================= specifications
\* The rule classifier on every pair of fractions
InitRule ==
  /\ ruleIn \in RuleInputs
  /\ ruleOut = None
  /\ SeqIdle /\ GenIdle /\ ModelIdle /\ CliIdle

NextRule == ClassifyRule

SpecRule == InitRule /\ [][NextRule]_vars

\* The sequence functions on every raw text
InitSeq ==
  /\ raw \in RawInputs
  /\ seqOp = None
  /\ seqRes = None
  /\ RuleIdle /\ GenIdle /\ ModelIdle /\ CliIdle

NextSeq == Validate \/ ExtractFeatures \/ Encode

SpecSeq == InitSeq /\ [][NextSeq]_vars

\* generate_training_data for every argument and every sequence of draws
InitGen == GenEntered /\ RuleIdle /\ SeqIdle /\ ModelIdle /\ CliIdle

NextGen == GenDraw \/ GenNextClass \/ GenReturn

SpecGen == InitGen /\ [][NextGen]_vars

\* The same, the loop taking a step whenever it can
FairSpecGen == SpecGen /\ WF_vars(NextGen)

\* Classifier objects over storage that starts empty
InitModel == ModelIdle /\ RuleIdle /\ SeqIdle /\ GenIdle /\ CliIdle

NextModel == \E i \in Slots : Construct(i) \/ Train(i) \/ Predict(i)

SpecModel == InitModel /\ [][NextModel]_vars

\* analyze_sequence calls over any initial storage
InitCli ==
  /\ net_file \in { NoNetFile, [exists |-> TRUE, weights |-> 1, fit |-> 0] }
  /\ scaler_file \in { NoScalerFile, [exists |-> TRUE, stats |-> 1, fit |-> 0] }
  /\ clf = [i \in Slots |-> NoClassifier]
  /\ fits = 0
  /\ lastOp = NoOp
  /\ CliIdle /\ RuleIdle /\ SeqIdle /\ GenIdle

NextCli == AnalyzeStart \/ BlastSubmit \/ BlastSleep \/ BlastCheck \/ AnalyzeFinish

SpecCli == InitCli /\ [][NextCli]_vars

\* The same, a call that has started taking its next step whenever it can
FairSpecCli ==
  /\ SpecCli
  /\ WF_vars(BlastSubmit) /\ WF_vars(BlastSleep) /\ WF_vars(BlastCheck)
  /\ WF_vars(AnalyzeFinish)

Spec == SpecModel


\* ================================================================= claims

PersistedPairIsWhole == net_file.exists <=> scaler_file.exists

\* C3 (as claimed): a construction that finds exactly one of the two files
\* ends in a PersistenceError and not in a Fresh model.
PartialStateSurfaced ==
  (lastOp.op = "construct" /\ lastOp.net_present # lastOp.scaler_present)
    => lastOp.result.kind = "PersistenceError"

\* C4: predict on a classifier constructed Fresh, on which train has not been
\* called, fails for every valid non-empty sequence with the
\* scaler-not-fitted error and returns no class.
FreshPredictFails ==
  ( /\ lastOp.op = "predict"
    /\ lastOp.fresh
    /\ ~lastOp.fit_called
    /\ CharSet(upper(strip(lastOp.input))) \subseteq STANDARD_AMINO_ACIDS
    /\ strip(lastOp.input) # << >> )
  => /\ lastOp.result.kind = "ValueError"
     /\ lastOp.result.msg = "Scaler has not been fitted yet. Train the model first."

\* C4 witness: predict was called with a valid sequence on a Fresh,
\* never-trained classifier
FreshPredictCalled ==
  /\ lastOp.op = "predict"
  /\ lastOp.fresh
  /\ ~lastOp.fit_called
  /\ lastOp.input = << "V", "V", "V", "K", "K" >>
  /\ lastOp.result.kind = "ValueError"

\* C5 (as claimed): every call of generate_training_data eventually leaves
\* its sampling loop, by returning the dataset or by failing.
GenerationTerminates == <>(genPc # "loop")

\* C6: when generate_training_data returns, the dataset holds exactly
\* samples_per_class examples of each class, grouped by class in the order of
\* STRUCTURE_CLASSES, the k-th example is the encoding of the k-th accepted
\* sequence, and its label is that sequence's rule class.
DatasetBalancedAndGrouped ==
  genPc = "returned" =>
    LET n == samples_per_class
        total == n * Len(STRUCTURE_CLASSES)
    IN  /\ Len(X_train) = total
        /\ Len(y_train) = total
        /\ Len(genLog) = total
        /\ \A k \in 1..total :
             /\ y_train[k] = STRUCTURE_CLASSES[((k - 1) \div n) + 1]
             /\ y_train[k] = extract_features(genLog[k]).value.structure_class
             /\ X_train[k] = feature_vector(genLog[k])
        /\ \A c \in ClassSet :
             Cardinality({ k \in 1..total : y_train[k] = c }) = n

\* C6 witness: a call with samples_per_class = 2 has returned ten examples
DatasetReturned ==
  /\ genPc = "returned"
  /\ samples_per_class = 2
  /\ Len(y_train) = 10
  /\ y_train[3] = "Dominantly beta-sheet"

\* C7 (as claimed): extract_features and the encoding of predict reject an
\* empty or white-space-only text with the validator's error.
EmptyRejectedAsInvalid ==
  (seqOp \in { "extract_features", "encode" } /\ strip(raw) = << >>)
    => /\ seqRes.kind = "ValueError"
       /\ seqRes.msg = "Invalid characters found in sequence"

\* C8: validate_amino_acid_sequence returns the stripped, upper-cased text
\* whole when all of it is in the alphabet, and otherwise fails naming
\* exactly the characters outside the alphabet; it never returns text with a
\* character outside the alphabet.
ValidateContract ==
  seqOp = "validate_amino_acid_sequence" =>
    LET c == upper(strip(raw))
        bad == { c[i] : i \in 1..Len(c) } \ STANDARD_AMINO_ACIDS
    IN  /\ IF bad = {}
             THEN seqRes.kind = "ok" /\ seqRes.value = c
             ELSE seqRes.kind = "ValueError" /\ seqRes.value = bad
        /\ seqRes.kind = "ok" =>
             \A i \in 1..Len(seqRes.value) : seqRes.value[i] \in STANDARD_AMINO_ACIDS
        /\ raw = << "M", "K", "T", "P", "R", "-", "X", "X", "X" >> =>
             seqRes.kind = "ValueError" /\ seqRes.value = { "-", "X" }

\* C8 witness: "MKTPR-XXX" was rejected naming '-' and 'X'
ValidateNamedOffenders ==
  /\ seqOp = "validate_amino_acid_sequence"
  /\ raw = << "M", "K", "T", "P", "R", "-", "X", "X", "X" >>
  /\ seqRes.kind = "ValueError"
  /\ seqRes.value = { "-", "X" }

\* The classifier in slot j was loaded from the pair that the last, completed
\* train call of the classifier in slot i wrote, and was not trained since
LoadedFromFitOf(j, i) ==
  /\ clf[i].made /\ clf[i].fit_id > 0 /\ clf[i].fit_ok
  /\ clf[j].made /\ ~clf[j].fresh /\ ~clf[j].fit_called
  /\ clf[j].loaded_net = clf[i].fit_id
  /\ clf[j].loaded_scaler = clf[i].fit_id

SearchNeverBlocksPrediction ==
  (cliPc = "blast_submit" /\ validated_seq.value # << >>)
    ~> (model_prediction.kind = "ok")

\* C11 (as claimed): in the profile extract_features returns, helix_fraction
\* is the fraction of residues in {V,I,Y,F,W,L}, sheet_fraction the fraction
\* of residues in {E,M,A,L} and coil_fraction the fraction of residues in
\* {N,P,G,S}.
ProfileFractionsAsDocumented ==
  (seqOp = "extract_features" /\ seqRes.kind = "ok") =>
    LET c == upper(strip(raw))
        n == Len(c)
        p == seqRes.value
    IN  /\ p.helix_fraction = Frac(CountIn(c, { "V", "I", "Y", "F", "W", "L" }), n)
        /\ p.sheet_fraction = Frac(CountIn(c, { "E", "M", "A", "L" }), n)
        /\ p.coil_fraction = Frac(CountIn(c, { "N", "P", "G", "S" }), n)

\* C12 (as claimed): the class extract_features assigns is
\* "Unstructured / Coil-Dominant" exactly when the helix fraction and the
\* sheet fraction of its profile are both below 0.3.
UnstructuredIffBothLow ==
  (seqOp = "extract_features" /\ seqRes.kind = "ok") =>
    LET p == seqRes.value
    IN  (p.structure_class = "Unstructured / Coil-Dominant")
          <=> (FLt(p.helix_fraction, 3, 10) /\ FLt(p.sheet_fraction, 3, 10))

\* C13: in every analyze_sequence call, over any initial storage, the
\* training of ensure_model_trained runs exactly when the network file or the
\* scaler file is missing, and the classifier predict is called on was loaded
\* from the two files as they are, with a fitted scaler, so that predict does
\* not end in the scaler-not-fitted error.
CliPredictsOnLoadedPair ==
  [][ /\ (cliPc = "idle" /\ analyses' = analyses + 1) =>
           IF ~net_file.exists \/ ~scaler_file.exists
             THEN fits' = fits + 1 /\ clf'[1].fit_called /\ clf'[1].fit_id = fits'
             ELSE UNCHANGED << fits, clf, net_file, scaler_file >>
      /\ (cliPc = "predict" /\ cliPc' = "idle") =>
           /\ net_file.exists /\ scaler_file.exists
           /\ lastOp'.op = "predict"
           /\ ~clf'[2].fresh
           /\ clf'[2].scaler = FittedScaler(scaler_file.stats)
           /\ clf'[2].model = net_file.weights
           /\ model_prediction' = lastOp'.result
           /\ model_prediction'.msg #
                "Scaler has not been fitted yet. Train the model first."
    ]_vars

\* C13 witness: a call that started with a file missing trained, and its
\* predict returned a class on the classifier loaded from the pair written
CliTrainedThenPredicted ==
  /\ cliPc = "idle"
  /\ fits = 1
  /\ clf[1].fit_ok
  /\ lastOp.op = "predict"
  /\ clf[2].loaded_net = 1
  /\ clf[2].loaded_scaler = 1
  /\ model_prediction.kind = "ok"

====
